---- MODULE Spec2Model ----
(***************************************************************************)
(* lxc_start of src/lxc/start.c as a state machine.                        *)
(*                                                                         *)
(* Launchers are the processes that call lxc_start on one container name.  *)
(* Every launcher walks the statements of lxc_start one action at a time;  *)
(* the process created by fork_ns walks the child branch (lines 104-150).  *)
(* Every library or system call that the code tests for failure may fail.  *)
(***************************************************************************)
EXTENDS Integers, Sequences, FiniteSets, TLC

\* ------------------------------------------------------------------ bounds
\* number of launcher processes calling lxc_start on the same name
NLaunchers == 2
\* number of lxc_start calls made in all
MaxCalls == 2

Launchers == 1..NLaunchers

\* ------------------------------------------------------- program constants
\* sizeof(sync): the number of bytes of every handshake write and read
SizeofSync == 4
\* error.h (not part of the sources at hand): positive, distinct enum values
LXC_ERROR_BUSY == 2
LXC_ERROR_INTERNAL == 22

STARTING == "STARTING"
RUNNING  == "RUNNING"
STOPPING == "STOPPING"
STOPPED  == "STOPPED"
ABORTING == "ABORTING"
NOSTATE  == "NOSTATE"

CLONE_NEWPID == "CLONE_NEWPID"
CLONE_NEWIPC == "CLONE_NEWIPC"
CLONE_NEWNS  == "CLONE_NEWNS"
CLONE_NEWUTS == "CLONE_NEWUTS"
CLONE_NEWNET == "CLONE_NEWNET"

Sigs == {"SIGINT", "SIGQUIT"}
\* what a signal's disposition can be: the default, a handler of the caller,
\* or the tty_<sig>_handler that LXC_TTY_ADD_HANDLER installs
SIG_DFL == "SIG_DFL"
CALLER_HANDLER == "CALLER_HANDLER"
TTY_HANDLER == "TTY_HANDLER"

VARIABLES
    \* ---- per container name (one name is modelled)
    lockOwner,     \* 0 when the name's lock is free, else the launcher holding it
    state,         \* the lifecycle state last stored by lxc_setstate
    initFile,      \* the pid record LXCPATH/<name>/init: [exists, content]
    nsgroup,       \* TRUE while the nsgroup link of the name exists
    network,       \* TRUE while the configured network exists
    conf,          \* configuration and build: [utsname, network, NETWORK_DESTROY]
    calls,         \* number of lxc_start calls made so far, by all launchers
    \* ---- per launcher: the locals of lxc_start
    pc,            \* the statement the launcher is at
    lock,          \* int lock
    err,           \* int err
    pid,           \* pid_t pid
    clone_flags,   \* int clone_flags, as the set of its bits
    sv,            \* the launcher's two socketpair descriptors: [s0, s1] open or not
    init,          \* TRUE once snprintf filled char init[]
    fd,            \* the descriptor of the pid record: 0 none, -1 failed, 1 open
    disp,          \* the current disposition of SIGINT, SIGQUIT
    lxc_tty_sa,    \* static struct sigaction lxc_tty_sa_<sig>
    \* ---- per launcher: the child created by fork_ns and the channel
    cpc,           \* the statement the child is at
    csv,           \* the child's two socketpair descriptors
    chan,          \* messages in flight: [toParent, toChild]
    \* ---- per launcher: history of the current call
    trace,         \* the lxc_setstate calls made: <<state, ok>>
    hist           \* what the call did so far, see NoHist

nameVars   == <<lockOwner, state, initFile, nsgroup, network, conf, calls>>
localVars  == <<lock, err, pid, clone_flags, sv, init, fd>>
sigVars    == <<disp, lxc_tty_sa>>
childVars  == <<cpc, csv, chan>>
histVars   == <<trace, hist>>
vars == <<nameVars, pc, localVars, sigVars, childVars, histVars>>

States == {STARTING, RUNNING, STOPPING, STOPPED, ABORTING}

\* the name is clean, as an out block leaves it: STOPPED is stored, there is
\* no nsgroup link and no pid record
NameClean == state = STOPPED /\ ~nsgroup /\ ~initFile.exists

\* What the current call did so far.
\*   locked: lxc_get_lock gave the lock;  busy: it found the lock held;
\*   rd2: the result of the read of line 176 (-2: not done);
\*   wrotePid: the pid record was written;  running: RUNNING was stored;
\*   reaped: waitpid collected the child;  added: LXC_TTY_ADD_HANDLER ran;
\*   orig: the dispositions in force when the call began;
\*   net: conf_create_network of this call succeeded;
\*   cfail: the child step that failed;  cwrote: the child tried to write the
\*   outcome signal;  execed: execvp succeeded;
\*   rd1: the result of the read of line 155 (-2: not done);
\*   nsg: lxc_link_nsgroup was called;  netfail: conf_create_network failed;
\*   cont: the continue signal was written;
\*   netdel: conf_destroy_network was called;
\*   clean: the call began on a clean name, see NameClean
NoHist == [locked |-> FALSE, busy |-> FALSE, rd2 |-> -2,
           rd1 |-> -2, nsg |-> FALSE, netfail |-> FALSE, cont |-> FALSE,
           netdel |-> FALSE, clean |-> FALSE,
           wrotePid |-> FALSE, running |-> FALSE, reaped |-> FALSE,
           added |-> FALSE, orig |-> [s \in Sigs |-> SIG_DFL],
           net |-> FALSE,
           cfail |-> "none", cwrote |-> FALSE, execed |-> FALSE]

\* the state before any call, the launchers' SIGINT and SIGQUIT being at d
InitWith(d) ==
    /\ lockOwner = 0
    /\ state = NOSTATE
    /\ initFile = [exists |-> FALSE, content |-> 0]
    /\ nsgroup = FALSE
    /\ network = FALSE
    /\ conf \in [utsname : BOOLEAN, network : BOOLEAN, NETWORK_DESTROY : BOOLEAN]
    /\ calls = 0
    /\ pc = [p \in Launchers |-> "idle"]
    /\ lock = [p \in Launchers |-> 0]
    /\ err = [p \in Launchers |-> 0]
    /\ pid = [p \in Launchers |-> 0]
    /\ clone_flags = [p \in Launchers |-> {}]
    /\ sv = [p \in Launchers |-> [s0 |-> FALSE, s1 |-> FALSE]]
    /\ init = [p \in Launchers |-> FALSE]
    /\ fd = [p \in Launchers |-> 0]
    /\ disp = [p \in Launchers |-> [s \in Sigs |-> d]]
    /\ lxc_tty_sa = [p \in Launchers |-> [s \in Sigs |-> SIG_DFL]]
    /\ cpc = [p \in Launchers |-> "none"]
    /\ csv = [p \in Launchers |-> [s0 |-> FALSE, s1 |-> FALSE]]
    /\ chan = [p \in Launchers |-> [toParent |-> 0, toChild |-> 0]]
    /\ trace = [p \in Launchers |-> <<>>]
    /\ hist = [p \in Launchers |-> NoHist]

\* launchers that left SIGINT and SIGQUIT at their defaults
Init == InitWith(SIG_DFL)

\* launchers that may have installed handlers of their own
InitSig == \E d \in {SIG_DFL, CALLER_HANDLER} : InitWith(d)

\* ----------------------------------------------------------------- helpers
At(p, l) == pc[p] = l

\* the statement a label stands before (lines 242-263: labels that share
\* a statement)
Stmt(l) ==
    CASE l \in {"err_state_failed", "err_child_failed",
                "err_pipe_read2", "err_pipe_write"} -> "err_destroy_network"
      [] l \in {"err_create_network", "err_pipe_read",
                "err_waitpid_failed"} -> "err_aborting"
      [] OTHER -> l

Goto(p, l) == pc' = [pc EXCEPT ![p] = Stmt(l)]
Note(p, f, v) == hist' = [hist EXCEPT ![p][f] = v]

\* lxc_setstate(name, s): stores s and returns 0, or fails and stores nothing
lxc_setstate(p, s, ok) ==
    /\ state' = IF ok THEN s ELSE state
    /\ trace' = [trace EXCEPT ![p] = Append(@, <<s, ok>>)]

\* lxc_get_lock(name): the descriptor of the lock (> 0), 0 when the lock is
\* held by another start, -errno when the lock file cannot be used
lxc_get_lock(p) ==
    IF lockOwner = 0 THEN {1, -1} ELSE {0, -1}

\* ------------------------------------------------- lxc_start, lines 48-102
\* LockBranch without the test of line 58
LockBranch_NoBusyTest(r) ==
    IF r < 0 THEN "return_lock_failed"
    ELSE "setstate_starting"

\* lines 58-67: where the result of lxc_get_lock sends the call
LockBranch(r) ==
    IF r = 0 THEN "return_busy"
    ELSE IF r < 0 THEN "return_lock_failed"
    ELSE "setstate_starting"

\* lines 48-67: the caller enters lxc_start (the initialisers of line 53; the
\* other locals hold nothing yet and char init[] is not filled) and asks for
\* the lock
Call(p) ==
    /\ At(p, "idle")
    /\ calls < MaxCalls
    /\ calls' = calls + 1
    /\ err' = [err EXCEPT ![p] = -LXC_ERROR_INTERNAL]
    /\ \E r \in lxc_get_lock(p) :
        /\ lock' = [lock EXCEPT ![p] = r]
        /\ lockOwner' = IF r > 0 THEN p ELSE lockOwner
        /\ hist' = [hist EXCEPT ![p] =
                      [NoHist EXCEPT !.locked = (r > 0), !.busy = (r = 0),
                                     !.orig = disp[p],
                                     !.clean = NameClean]]
        /\ Goto(p, LockBranch(r))
    /\ UNCHANGED <<state, initFile, nsgroup, network, conf>>
    /\ UNCHANGED <<pid, clone_flags, sv, init, fd>>
    /\ UNCHANGED <<sigVars, childVars, trace>>

\* lines 69-73
SetStateStarting(p) ==
    /\ At(p, "setstate_starting")
    /\ \E ok \in BOOLEAN :
        /\ lxc_setstate(p, STARTING, ok)
        /\ Goto(p, IF ok THEN "readlink" ELSE "out")
    /\ UNCHANGED <<lockOwner, initFile, nsgroup, network, conf, calls>>
    /\ UNCHANGED <<localVars, sigVars, childVars, hist>>

\* lines 75-78
Readlink(p) ==
    /\ At(p, "readlink")
    /\ \E ok \in BOOLEAN : Goto(p, IF ok THEN "socketpair" ELSE "out")
    /\ UNCHANGED <<nameVars, localVars, sigVars, childVars, histVars>>

\* lines 81-85
Socketpair(p) ==
    /\ At(p, "socketpair")
    /\ \E ok \in BOOLEAN :
        /\ sv' = [sv EXCEPT ![p] = [s0 |-> ok, s1 |-> ok]]
        /\ Goto(p, IF ok THEN "add_handler" ELSE "out")
    /\ UNCHANGED <<nameVars, lock, err, pid, clone_flags, init, fd>>
    /\ UNCHANGED <<sigVars, childVars, histVars>>

\* LXC_TTY_ADD_HANDLER(s): sigaction(s, &sa, &lxc_tty_sa_s) saves the
\* disposition in force and installs tty_s_handler
LXC_TTY_ADD_HANDLER(p) ==
    /\ lxc_tty_sa' = [lxc_tty_sa EXCEPT ![p] = disp[p]]
    /\ disp' = [disp EXCEPT ![p] = [s \in Sigs |-> TTY_HANDLER]]

\* LXC_TTY_DEL_HANDLER(s): sigaction(s, &lxc_tty_sa_s, NULL) installs what
\* the static lxc_tty_sa_s holds
LXC_TTY_DEL_HANDLER(p) ==
    /\ disp' = [disp EXCEPT ![p] = lxc_tty_sa[p]]
    /\ lxc_tty_sa' = lxc_tty_sa

\* lines 87-89
AddHandler(p) ==
    /\ At(p, "add_handler")
    /\ LXC_TTY_ADD_HANDLER(p)
    /\ Note(p, "added", TRUE)
    /\ Goto(p, "clone_flags")
    /\ UNCHANGED <<nameVars, localVars, childVars, trace>>

\* ComputeFlags without the test of conf_has_utsname
ComputeFlags_NoUts(name_conf) ==
    {CLONE_NEWPID, CLONE_NEWIPC, CLONE_NEWNS}
        \cup (IF name_conf.network THEN {CLONE_NEWNET} ELSE {})

\* lines 91-95
ComputeFlags(name_conf) ==
    {CLONE_NEWPID, CLONE_NEWIPC, CLONE_NEWNS}
        \cup (IF name_conf.utsname THEN {CLONE_NEWUTS} ELSE {})
        \cup (IF name_conf.network THEN {CLONE_NEWNET} ELSE {})

CloneFlags(p) ==
    /\ At(p, "clone_flags")
    /\ clone_flags' = [clone_flags EXCEPT ![p] = ComputeFlags(conf)]
    /\ Goto(p, "fork_ns")
    /\ UNCHANGED <<nameVars, lock, err, pid, sv, init, fd>>
    /\ UNCHANGED <<sigVars, childVars, histVars>>

\* the pid fork_ns returns to launcher p: some pid > 0
ChildPid(p) == p + 1

\* lines 97-102: fork_ns gives the child a copy of both descriptors
ForkNs(p) ==
    /\ At(p, "fork_ns")
    /\ \/ /\ pid' = [pid EXCEPT ![p] = -1]
          /\ Goto(p, "err_fork_ns")
          /\ UNCHANGED childVars
       \/ /\ pid' = [pid EXCEPT ![p] = ChildPid(p)]
          /\ cpc' = [cpc EXCEPT ![p] = "c_close"]
          /\ csv' = [csv EXCEPT ![p] = [s0 |-> TRUE, s1 |-> TRUE]]
          /\ chan' = chan
          /\ Goto(p, "close_sv0")
    /\ UNCHANGED <<nameVars, lock, err, clone_flags, sv, init, fd>>
    /\ UNCHANGED <<sigVars, histVars>>

\* ------------------------------------------------------------ the channel
ChildAlive(p) == cpc[p] \notin {"none", "zombie", "reaped"}

\* read(sv[1], &sync, sizeof(sync)) in the launcher: the bytes of one message,
\* 0 at end of stream (no copy of sv[0] is open any more), -1 on error;
\* without data and with sv[0] open somewhere the read blocks
ParentRead(p) ==
    {-1} \cup (IF chan[p].toParent > 0 THEN {SizeofSync}
               ELSE IF ~csv[p].s0 /\ ~sv[p].s0 THEN {0}
               ELSE {})

\* ChildRead as a read that never waits for the launcher
ChildRead_NoWait(p) == {-1, 0}

\* read(sv[0], &sync, sizeof(sync)) in the child
ChildRead(p) ==
    {-1} \cup (IF chan[p].toChild > 0 THEN {SizeofSync}
               ELSE IF ~csv[p].s1 /\ ~sv[p].s1 THEN {0}
               ELSE {})

\* write(sv[1], &sync, sizeof(sync)) in the launcher: sizeof(sync), or -1
\* (always -1 once no copy of sv[0] is open)
ParentWrite(p) ==
    {-1} \cup (IF csv[p].s0 \/ sv[p].s0 THEN {SizeofSync} ELSE {})

\* write(sv[0], &sync, sizeof(sync)) in the child
ChildWrite(p) ==
    {-1} \cup (IF csv[p].s1 \/ sv[p].s1 THEN {SizeofSync} ELSE {})

\* Sent as a write whose bytes never arrive
Sent_Lost(p, dir, w) == chan' = chan

Sent(p, dir, w) ==
    chan' = [chan EXCEPT ![p][dir] = IF w > 0 THEN @ + 1 ELSE @]
Received(p, dir, r) ==
    chan' = [chan EXCEPT ![p][dir] = IF r > 0 THEN @ - 1 ELSE @]

\* ------------------------------------- the child branch, lines 104-150
\* lines 106-109
ChildClose(p) ==
    /\ cpc[p] = "c_close"
    /\ csv' = [csv EXCEPT ![p].s1 = FALSE]
    /\ cpc' = [cpc EXCEPT ![p] = "c_write_ready"]
    /\ UNCHANGED <<nameVars, pc, localVars, sigVars, chan, histVars>>

\* lines 111-115
ChildWriteReady(p) ==
    /\ cpc[p] = "c_write_ready"
    /\ \E w \in ChildWrite(p) :
        /\ Sent(p, "toParent", w)
        /\ cpc' = [cpc EXCEPT ![p] = IF w < 0 THEN "c_exit" ELSE "c_read_continue"]
        /\ Note(p, "cfail", IF w < 0 THEN "c_write_ready" ELSE "none")
    /\ UNCHANGED <<nameVars, pc, localVars, sigVars, csv, trace>>

\* lines 117-121
ChildReadContinue(p) ==
    /\ cpc[p] = "c_read_continue"
    /\ \E r \in ChildRead(p) :
        /\ Received(p, "toChild", r)
        /\ cpc' = [cpc EXCEPT ![p] = IF r < 0 THEN "c_exit" ELSE "c_setup"]
        /\ Note(p, "cfail", IF r < 0 THEN "c_read_continue" ELSE "none")
    /\ UNCHANGED <<nameVars, pc, localVars, sigVars, csv, trace>>

\* which failing child steps write the outcome signal before out_child:
\* lxc_setup (line 126) and execvp (line 145) do, mount (line 133) and
\* prctl (line 138) go to out_child at once
WritesOutcome(step) == step \in {"c_setup", "c_exec"}

\* the step after a child step that succeeded
ChildNext(step) ==
    CASE step = "c_setup" -> "c_mount"
      [] step = "c_mount" -> "c_prctl"
      [] step = "c_prctl" -> "c_exec"
      [] step = "c_exec"  -> "running"

\* lines 123-146: lxc_setup, mount, prctl, execvp; a successful execvp
\* closes sv[0], which is FD_CLOEXEC (line 109)
ChildStep(p) ==
    /\ cpc[p] \in {"c_setup", "c_mount", "c_prctl", "c_exec"}
    /\ \/ /\ cpc' = [cpc EXCEPT ![p] = ChildNext(cpc[p])]
          /\ csv' = IF cpc[p] = "c_exec"
                      THEN [csv EXCEPT ![p].s0 = FALSE] ELSE csv
          /\ chan' = chan
          /\ Note(p, "execed", cpc[p] = "c_exec")
       \/ /\ cpc' = [cpc EXCEPT ![p] = "c_exit"]
          /\ csv' = csv
          /\ hist' = [hist EXCEPT ![p].cfail = cpc[p],
                                  ![p].cwrote = WritesOutcome(cpc[p])]
          /\ IF WritesOutcome(cpc[p])
               THEN \E w \in ChildWrite(p) : Sent(p, "toParent", w)
               ELSE chan' = chan
    /\ UNCHANGED <<nameVars, pc, localVars, sigVars, trace>>

\* lines 148-149: exit(1) closes the child's descriptors
ChildExit(p) ==
    /\ cpc[p] = "c_exit"
    /\ cpc' = [cpc EXCEPT ![p] = "zombie"]
    /\ csv' = [csv EXCEPT ![p] = [s0 |-> FALSE, s1 |-> FALSE]]
    /\ UNCHANGED <<nameVars, pc, localVars, sigVars, chan, histVars>>

\* the program of argv, started by line 141, ends
TargetExit(p) ==
    /\ cpc[p] = "running"
    /\ cpc' = [cpc EXCEPT ![p] = "zombie"]
    /\ UNCHANGED <<nameVars, pc, localVars, sigVars, csv, chan, histVars>>

\* -------------------------------------- lxc_start, the launcher, 152-228
\* line 152
CloseSv0(p) ==
    /\ At(p, "close_sv0")
    /\ sv' = [sv EXCEPT ![p].s0 = FALSE]
    /\ Goto(p, "read_ready")
    /\ UNCHANGED <<nameVars, lock, err, pid, clone_flags, init, fd>>
    /\ UNCHANGED <<sigVars, childVars, histVars>>

\* lines 154-158: only a negative result is a failure
ReadReady(p) ==
    /\ At(p, "read_ready")
    /\ \E r \in ParentRead(p) :
        /\ Received(p, "toParent", r)
        /\ Note(p, "rd1", r)
        /\ Goto(p, IF r < 0 THEN "err_pipe_read" ELSE "link_nsgroup")
    /\ UNCHANGED <<nameVars, localVars, sigVars, cpc, csv, trace>>

\* lines 160-161: a failure is a warning
LinkNsgroup(p) ==
    /\ At(p, "link_nsgroup")
    /\ \E ok \in BOOLEAN : nsgroup' = (nsgroup \/ ok)
    /\ Note(p, "nsg", TRUE)
    /\ Goto(p, "create_network")
    /\ UNCHANGED <<lockOwner, state, initFile, network, conf, calls>>
    /\ UNCHANGED <<localVars, sigVars, childVars, trace>>

\* lines 163-167
CreateNetwork(p) ==
    /\ At(p, "create_network")
    /\ IF CLONE_NEWNET \in clone_flags[p]
         THEN \E ok \in BOOLEAN :
                /\ network' = (network \/ ok)
                /\ hist' = [hist EXCEPT ![p].net = ok, ![p].netfail = ~ok]
                /\ Goto(p, IF ok THEN "write_continue" ELSE "err_create_network")
         ELSE /\ network' = network
              /\ hist' = hist
              /\ Goto(p, "write_continue")
    /\ UNCHANGED <<lockOwner, state, initFile, nsgroup, conf, calls>>
    /\ UNCHANGED <<localVars, sigVars, childVars, trace>>

\* lines 169-173
WriteContinue(p) ==
    /\ At(p, "write_continue")
    /\ \E w \in ParentWrite(p) :
        /\ Sent(p, "toChild", w)
        /\ Note(p, "cont", w > 0)
        /\ Goto(p, IF w < 0 THEN "err_pipe_write" ELSE "read_outcome")
    /\ UNCHANGED <<nameVars, localVars, sigVars, cpc, csv, trace>>

\* ClassifyRead with success and failure exchanged
ClassifyRead_Reversed(n) ==
    IF n < 0 THEN "err_pipe_read2"
    ELSE IF n > 0 THEN "open_init"
    ELSE "waitpid_child"

\* lines 177-189: where the result of the read of line 176 sends the call
ClassifyRead(n) ==
    IF n < 0 THEN "err_pipe_read2"
    ELSE IF n > 0 THEN "waitpid_child"
    ELSE "open_init"

\* lines 175-183: err = read(...)
ReadOutcome(p) ==
    /\ At(p, "read_outcome")
    /\ \E r \in ParentRead(p) :
        /\ Received(p, "toParent", r)
        /\ err' = [err EXCEPT ![p] = r]
        /\ Note(p, "rd2", r)
        /\ Goto(p, ClassifyRead(r))
    /\ UNCHANGED <<nameVars, lock, pid, clone_flags, sv, init, fd>>
    /\ UNCHANGED <<sigVars, cpc, csv, trace>>

\* waitpid(pid, NULL, 0): collects the child once it has ended; TRUE in the
\* second place when it did, FALSE when it failed
Waitpid(p, ok) ==
    /\ ok => cpc[p] = "zombie"
    /\ cpc' = [cpc EXCEPT ![p] = IF ok THEN "reaped" ELSE @]
    /\ hist' = [hist EXCEPT ![p].reaped = @ \/ ok]

\* lines 185-186: the result of waitpid is not looked at
WaitpidChild(p) ==
    /\ At(p, "waitpid_child")
    /\ \E ok \in BOOLEAN : Waitpid(p, ok)
    /\ Goto(p, "err_child_failed")
    /\ UNCHANGED <<nameVars, localVars, sigVars, csv, chan, trace>>

\* lines 189-197: asprintf, snprintf fill val and init; open creates or
\* truncates the pid record
OpenInit(p) ==
    /\ At(p, "open_init")
    /\ init' = [init EXCEPT ![p] = TRUE]
    /\ \E ok \in BOOLEAN :
        /\ fd' = [fd EXCEPT ![p] = IF ok THEN 1 ELSE -1]
        /\ initFile' = IF ok THEN [exists |-> TRUE, content |-> 0] ELSE initFile
        /\ Goto(p, IF ok THEN "write_init" ELSE "err_write")
    /\ UNCHANGED <<lockOwner, state, nsgroup, network, conf, calls>>
    /\ UNCHANGED <<lock, err, pid, clone_flags, sv>>
    /\ UNCHANGED <<sigVars, childVars, histVars>>

\* lines 199-204: the record holds val, the decimal pid
WriteInit(p) ==
    /\ At(p, "write_init")
    /\ \E ok \in BOOLEAN :
        /\ initFile' = IF ok THEN [initFile EXCEPT !.content = pid[p]] ELSE initFile
        /\ fd' = [fd EXCEPT ![p] = IF ok THEN 0 ELSE @]
        /\ Note(p, "wrotePid", ok)
        /\ Goto(p, IF ok THEN "setstate_running" ELSE "err_write")
    /\ UNCHANGED <<lockOwner, state, nsgroup, network, conf, calls>>
    /\ UNCHANGED <<lock, err, pid, clone_flags, sv, init>>
    /\ UNCHANGED <<sigVars, childVars, trace>>

\* lines 206-210
SetStateRunning(p) ==
    /\ At(p, "setstate_running")
    /\ \E ok \in BOOLEAN :
        /\ lxc_setstate(p, RUNNING, ok)
        /\ Note(p, "running", ok)
        /\ Goto(p, IF ok THEN "wait_again" ELSE "err_state_failed")
    /\ UNCHANGED <<lockOwner, initFile, nsgroup, network, conf, calls>>
    /\ UNCHANGED <<localVars, sigVars, childVars>>

\* lines 212-218: EINTR repeats the call, any other failure is fatal
WaitAgain(p) ==
    /\ At(p, "wait_again")
    /\ \E ok \in BOOLEAN :
        /\ Waitpid(p, ok)
        /\ Goto(p, IF ok THEN "setstate_stopping" ELSE "err_waitpid_failed")
    /\ UNCHANGED <<nameVars, localVars, sigVars, csv, chan, trace>>

\* lines 220-221
SetStateStopping(p) ==
    /\ At(p, "setstate_stopping")
    /\ \E ok \in BOOLEAN : lxc_setstate(p, STOPPING, ok)
    /\ Goto(p, "destroy_network")
    /\ UNCHANGED <<lockOwner, initFile, nsgroup, network, conf, calls>>
    /\ UNCHANGED <<localVars, sigVars, childVars, hist>>

\* conf_destroy_network(name) under #ifdef NETWORK_DESTROY, guarded by
\* clone_flags & CLONE_NEWNET (lines 223-226 and 249-252)
DestroyNetwork(p) ==
    IF conf.NETWORK_DESTROY /\ CLONE_NEWNET \in clone_flags[p]
      THEN /\ \E ok \in BOOLEAN : network' = (network /\ ~ok)
           /\ Note(p, "netdel", TRUE)
      ELSE /\ network' = network
           /\ hist' = hist

\* lines 223-228
DestroyNetworkDone(p) ==
    /\ At(p, "destroy_network")
    /\ DestroyNetwork(p)
    /\ err' = [err EXCEPT ![p] = 0]
    /\ Goto(p, "out")
    /\ UNCHANGED <<lockOwner, state, initFile, nsgroup, conf, calls>>
    /\ UNCHANGED <<lock, pid, clone_flags, sv, init, fd>>
    /\ UNCHANGED <<sigVars, childVars, trace>>

\* ------------------------------------------ lxc_start, out, lines 229-240
\* OutState as the state of the failure unwind
OutState_Aborting == ABORTING

\* line 230: the state the out block asks for
OutState == STOPPED

\* lines 230-231
Out(p) ==
    /\ At(p, "out")
    /\ \E ok \in BOOLEAN : lxc_setstate(p, OutState, ok)
    /\ Goto(p, "unlink_nsgroup")
    /\ UNCHANGED <<lockOwner, initFile, nsgroup, network, conf, calls>>
    /\ UNCHANGED <<localVars, sigVars, childVars, hist>>

\* line 233
UnlinkNsgroup(p) ==
    /\ At(p, "unlink_nsgroup")
    /\ nsgroup' = FALSE
    /\ Goto(p, "unlink_init")
    /\ UNCHANGED <<lockOwner, state, initFile, network, conf, calls>>
    /\ UNCHANGED <<localVars, sigVars, childVars, histVars>>

\* UnlinkInit without the unlink
UnlinkInit_Skipped(p) ==
    /\ At(p, "unlink_init")
    /\ Goto(p, "put_lock")
    /\ UNCHANGED <<nameVars, localVars, sigVars, childVars, histVars>>

\* lines 234-235: unlink(init). On the paths that reach out before line 191,
\* init[] was never written: the path unlinked is whatever the stack holds,
\* the pid record's path (left by an earlier call) or any other
UnlinkInit(p) ==
    /\ At(p, "unlink_init")
    /\ \E hit \in (IF init[p] THEN {TRUE} ELSE BOOLEAN) :
        initFile' = IF hit THEN [exists |-> FALSE, content |-> 0] ELSE initFile
    /\ Goto(p, "put_lock")
    /\ UNCHANGED <<lockOwner, state, nsgroup, network, conf, calls>>
    /\ UNCHANGED <<localVars, sigVars, childVars, histVars>>

\* lxc_put_lock(lock): gives the lock back
lxc_put_lock(p) ==
    lockOwner' = IF lockOwner = p THEN 0 ELSE lockOwner

\* the value of the return statement the call is at: lines 60, 66, 240
ReturnValue(p) ==
    CASE At(p, "return_busy") -> -LXC_ERROR_BUSY
      [] At(p, "return_lock_failed") -> -LXC_ERROR_INTERNAL
      [] OTHER -> err[p]

\* the call ends, and with it its locals; the history of the call is dropped
\* with them
EndOfCall(p) ==
    /\ lock' = [lock EXCEPT ![p] = 0]
    /\ err' = [err EXCEPT ![p] = 0]
    /\ pid' = [pid EXCEPT ![p] = 0]
    /\ clone_flags' = [clone_flags EXCEPT ![p] = {}]
    /\ sv' = [sv EXCEPT ![p] = [s0 |-> FALSE, s1 |-> FALSE]]
    /\ init' = [init EXCEPT ![p] = FALSE]
    /\ fd' = [fd EXCEPT ![p] = 0]
    /\ cpc' = [cpc EXCEPT ![p] = "none"]
    /\ csv' = [csv EXCEPT ![p] = [s0 |-> FALSE, s1 |-> FALSE]]
    /\ chan' = [chan EXCEPT ![p] = [toParent |-> 0, toChild |-> 0]]
    /\ trace' = [trace EXCEPT ![p] = <<>>]
    /\ hist' = [hist EXCEPT ![p] = NoHist]
    /\ Goto(p, "idle")

\* lines 236-240: lxc_put_lock, LXC_TTY_DEL_HANDLER for both signals, and
\* return err; the last two touch nothing another process can see
PutLock(p) ==
    /\ At(p, "put_lock")
    /\ lxc_put_lock(p)
    /\ LXC_TTY_DEL_HANDLER(p)
    /\ EndOfCall(p)
    /\ UNCHANGED <<state, initFile, nsgroup, network, conf, calls>>

\* lines 60 and 66: the returns taken without the lock
ReturnNoLock(p) ==
    /\ pc[p] \in {"return_busy", "return_lock_failed"}
    /\ EndOfCall(p)
    /\ UNCHANGED <<nameVars, sigVars>>

\* ------------------------------- lxc_start, the err_ labels, lines 242-263
\* lines 242-243: close(fd), of no effect when open failed (fd is -1)
ErrWrite(p) ==
    /\ At(p, "err_write")
    /\ fd' = [fd EXCEPT ![p] = IF @ > 0 THEN 0 ELSE @]
    /\ Goto(p, "err_state_failed")
    /\ UNCHANGED <<nameVars, lock, err, pid, clone_flags, sv, init>>
    /\ UNCHANGED <<sigVars, childVars, histVars>>

\* lines 245-252
ErrDestroyNetwork(p) ==
    /\ At(p, "err_destroy_network")
    /\ DestroyNetwork(p)
    /\ Goto(p, "err_create_network")
    /\ UNCHANGED <<lockOwner, state, initFile, nsgroup, conf, calls>>
    /\ UNCHANGED <<localVars, sigVars, childVars, trace>>

\* lines 253-257
ErrAborting(p) ==
    /\ At(p, "err_aborting")
    /\ \E ok \in BOOLEAN : lxc_setstate(p, ABORTING, ok)
    /\ Goto(p, "kill")
    /\ UNCHANGED <<lockOwner, initFile, nsgroup, network, conf, calls>>
    /\ UNCHANGED <<localVars, sigVars, childVars, hist>>

\* line 259: kill(pid, SIGKILL) ends the child if it still runs, and closes
\* its descriptors
Kill(p) ==
    /\ At(p, "kill")
    /\ cpc' = [cpc EXCEPT ![p] = IF ChildAlive(p) THEN "zombie" ELSE @]
    /\ csv' = [csv EXCEPT ![p] = [s0 |-> FALSE, s1 |-> FALSE]]
    /\ Goto(p, "err_fork_ns")
    /\ UNCHANGED <<nameVars, localVars, sigVars, chan, histVars>>

\* AfterUnwind as a return in place of the goto out
AfterUnwind_Return == "return_lock_failed"

\* line 263: where the unwind goes after closing the descriptors
AfterUnwind == "out"

\* lines 260-263
ErrForkNs(p) ==
    /\ At(p, "err_fork_ns")
    /\ sv' = [sv EXCEPT ![p] = [s0 |-> FALSE, s1 |-> FALSE]]
    /\ Goto(p, AfterUnwind)
    /\ UNCHANGED <<nameVars, lock, err, pid, clone_flags, init, fd>>
    /\ UNCHANGED <<sigVars, childVars, histVars>>

\* ------------------------------------------------------- the specification
Launcher(p) ==
    \/ Call(p) \/ SetStateStarting(p) \/ Readlink(p)
    \/ Socketpair(p) \/ AddHandler(p) \/ CloneFlags(p) \/ ForkNs(p)
    \/ CloseSv0(p) \/ ReadReady(p) \/ LinkNsgroup(p) \/ CreateNetwork(p)
    \/ WriteContinue(p) \/ ReadOutcome(p) \/ WaitpidChild(p) \/ OpenInit(p)
    \/ WriteInit(p) \/ SetStateRunning(p) \/ WaitAgain(p)
    \/ SetStateStopping(p) \/ DestroyNetworkDone(p) \/ Out(p)
    \/ UnlinkNsgroup(p) \/ UnlinkInit(p) \/ PutLock(p) \/ ReturnNoLock(p)
    \/ ErrWrite(p) \/ ErrDestroyNetwork(p) \/ ErrAborting(p)
    \/ Kill(p) \/ ErrForkNs(p)

Child(p) ==
    \/ ChildClose(p) \/ ChildWriteReady(p) \/ ChildReadContinue(p)
    \/ ChildStep(p) \/ ChildExit(p) \/ TargetExit(p)

Next == \E p \in Launchers : Launcher(p) \/ Child(p)

Spec == Init /\ [][Next]_vars

\* the same program, called by launchers with handlers of their own
SpecSig == InitSig /\ [][Next]_vars

\* ---------------------------------------------------------------- fairness
\* the launcher is in a read of the channel that has nothing to return: no
\* data in flight and a copy of the other end open (lines 155, 176)
ParentBlocked(p) ==
    pc[p] \in {"read_ready", "read_outcome"} /\ ParentRead(p) = {-1}

\* the launcher is in a waitpid for a child that has not ended (lines 185,
\* 213)
ParentWaits(p) ==
    pc[p] \in {"waitpid_child", "wait_again"} /\ cpc[p] # "zombie"

\* the child is in the read of line 118 with nothing to return
ChildBlocked(p) ==
    cpc[p] = "c_read_continue" /\ ChildRead(p) = {-1}

\* a launcher that is not in a blocking call goes on; a call that blocks may
\* fail, but nothing makes it return
LauncherRuns(p) == ~ParentBlocked(p) /\ ~ParentWaits(p) /\ Launcher(p)

\* a child that is not in a blocking read goes on, and the target program
\* ends
ChildRuns(p) == ~ChildBlocked(p) /\ Child(p)

\* the program with both processes of every call scheduled fairly
SpecLive ==
    /\ Init /\ [][Next]_vars
    /\ \A p \in Launchers : WF_vars(LauncherRuns(p)) /\ WF_vars(ChildRuns(p))

\* ------------------------------------------------------------ vocabulary
\* the launcher is inside lxc_start past the lock (lines 69-240)
InStart(p) == pc[p] \notin {"idle", "return_busy", "return_lock_failed"}

\* the step that ends a call that held the lock (lines 236-240)
Returns(p) == At(p, "put_lock") /\ pc'[p] = "idle"

\* the states this call stored, in order
RECURSIVE StoredOf(_)
StoredOf(t) ==
    IF t = <<>> THEN <<>>
    ELSE IF t[1][2] THEN <<t[1][1]>> \o StoredOf(Tail(t))
    ELSE StoredOf(Tail(t))
Stored(p) == StoredOf(trace[p])

\* --------------------------------------------------------------------- C1
\* C1: of two lxc_start calls that overlap on the name at most one is past
\* the lock, and it holds the lock; a call whose lxc_get_lock found the lock
\* held is at the return of line 60, returns -LXC_ERROR_BUSY and has called
\* no lxc_setstate, made no socketpair, spawned no child and holds nothing;
\* a call made while the lock is held never gets past the lock.
C1_OneProceeds ==
    /\ [](\A p \in Launchers :
            /\ InStart(p) => lockOwner = p /\ lock[p] > 0
            /\ \A q \in Launchers \ {p} : ~(InStart(p) /\ InStart(q))
            /\ hist[p].busy =>
                 /\ At(p, "return_busy")
                 /\ ReturnValue(p) = -LXC_ERROR_BUSY
                 /\ lockOwner # p
                 /\ trace[p] = <<>> /\ cpc[p] = "none" /\ pid[p] = 0
                 /\ ~sv[p].s0 /\ ~sv[p].s1 /\ ~hist[p].added
                 /\ ~hist[p].wrotePid)
    /\ [][\A p \in Launchers :
            (At(p, "idle") /\ ~At(p, "idle")' /\ lockOwner # 0)
               => /\ pc'[p] \in {"return_busy", "return_lock_failed"}
                  /\ UNCHANGED <<lockOwner, state, initFile, nsgroup, network>>]_vars

\* one call holds the lock and has a child, another is at the busy return
C1_Witness ==
    \E p, q \in Launchers :
        /\ p # q
        /\ InStart(p) /\ ChildAlive(p)
        /\ At(q, "return_busy")

\* --------------------------------------------------------------------- C2
\* the statements of the success path after the final read (lines 189-228)
SuccessPath ==
    {"open_init", "write_init", "setstate_running", "wait_again",
     "setstate_stopping", "destroy_network"}

\* C2: the final read (line 176) is classified by its length alone. A read
\* of 0 bytes sends the call to the write of the pid record (line 189); a
\* read of more than 0 bytes sends it to waitpid and the unwind, and such a
\* call never opens or writes the pid record and never asks for RUNNING.
\* The pid record is written, and RUNNING asked for, only after a read of 0.
C2_ReadClassified ==
    /\ [](\A p \in Launchers :
            /\ hist[p].rd2 > 0 =>
                 /\ pc[p] \notin SuccessPath \cup {"err_write"}
                 /\ ~hist[p].wrotePid /\ ~hist[p].running
                 /\ ~init[p] /\ fd[p] = 0
                 /\ \A i \in 1..Len(trace[p]) : trace[p][i][1] # RUNNING
            /\ (pc[p] \in SuccessPath \/ hist[p].wrotePid \/ hist[p].running)
                 => hist[p].rd2 = 0)
    /\ [][\A p \in Launchers :
            At(p, "read_outcome") /\ ~At(p, "read_outcome")' =>
                /\ hist'[p].rd2 = 0 => At(p, "open_init")'
                /\ hist'[p].rd2 > 0 => At(p, "waitpid_child")'
                /\ hist'[p].rd2 < 0 => At(p, "err_destroy_network")']_vars

\* a zero-length final read of a child that ran execvp, the pid record
\* written and RUNNING stored
C2_Witness ==
    \E p \in Launchers :
        /\ hist[p].rd2 = 0 /\ hist[p].execed
        /\ hist[p].wrotePid /\ hist[p].running
        /\ initFile.exists /\ state = RUNNING

\* --------------------------------------------------------------------- C3
\* the child steps between the continue signal and the target program
AfterContinue == {"c_setup", "c_mount", "c_prctl", "c_exec"}

\* C3: a child that fails in lxc_setup, the /dev/console mount, the
\* CAP_SYS_BOOT drop or execvp writes the outcome signal before it exits, so
\* the final read of the launcher is not empty; the launcher stores RUNNING
\* only for a child that ran execvp.
C3_ChildFailureSignalled ==
    \A p \in Launchers :
        /\ hist[p].cfail \in AfterContinue => hist[p].cwrote
        /\ hist[p].cfail \in AfterContinue => hist[p].rd2 # 0
        /\ hist[p].running => hist[p].execed

\* --------------------------------------------------------------------- C4
\* C4 as stated: the pid record exists exactly while the state is RUNNING
C4_RecordIffRunning ==
    initFile.exists <=> state = RUNNING

\* the statements between the open of the pid record (line 193) and its
\* unlink (line 234)
RecordWindow ==
    {"write_init", "setstate_running", "wait_again", "setstate_stopping",
     "destroy_network", "err_write", "err_destroy_network", "err_aborting",
     "kill", "err_fork_ns", "out", "unlink_nsgroup", "unlink_init"}

\* C4, amended: the pid record exists only inside the call that holds the
\* lock and whose final read returned 0, between the open of line 193 and
\* the unlink of line 234 (so it is there while the state is still STARTING
\* and while STOPPING, STOPPED or ABORTING are stored by that call); while
\* that call waits for the child (line 213) the state is RUNNING and the
\* record holds the child's pid; after the unlink, and so whenever no call
\* holds the lock, there is no record.
C4_RecordInsideStart ==
    /\ initFile.exists =>
         \E p \in Launchers :
            /\ lockOwner = p /\ hist[p].rd2 = 0 /\ init[p]
            /\ pc[p] \in RecordWindow
    /\ \A p \in Launchers :
         /\ At(p, "wait_again") =>
              /\ state = RUNNING
              /\ initFile = [exists |-> TRUE, content |-> pid[p]]
              /\ pid[p] > 0
         /\ At(p, "put_lock") => ~initFile.exists
    /\ lockOwner = 0 => ~initFile.exists

\* the record exists while the state is STOPPING: the call has waited for
\* the child and has not yet reached the unlink
C4_Witness ==
    \E p \in Launchers :
        /\ At(p, "destroy_network")
        /\ initFile.exists /\ initFile.content = pid[p]
        /\ state = STOPPING

\* --------------------------------------------------------------------- C5
\* the call took a failure path: it never came to line 220
Failed(p) == \A i \in 1..Len(trace[p]) : trace[p][i][1] # STOPPING

\* C5: when a failed lxc_start returns, the lock is not held by it, the name
\* has no nsgroup link, the network this call created is gone, and there is
\* no pid record.
C5_UnwindComplete ==
    /\ [](\A p \in Launchers :
            /\ (At(p, "put_lock") /\ Failed(p)) =>
                 /\ ~nsgroup
                 /\ hist[p].net => ~network
                 /\ ~initFile.exists
            /\ pc[p] \in {"return_busy", "return_lock_failed"} => lockOwner # p)
    /\ [][\A p \in Launchers : Returns(p) => lockOwner' # p]_vars

\* --------------------------------------------------------------------- C6
\* C6: a call that got the lock holds it at every statement up to line 236,
\* in particular during the handshake, the wait and every lxc_setstate; the
\* lock leaves the call only by the lxc_put_lock of line 236, after which the
\* call returns, so it is put exactly once; no call ends holding the lock.
C6_LockHeldUntilPut ==
    /\ [](\A p \in Launchers :
            /\ hist[p].locked => InStart(p) /\ lockOwner = p
            /\ hist[p].locked <=> lock[p] > 0)
    /\ [][\A p \in Launchers :
            /\ (lockOwner = p /\ lockOwner' # p) => Returns(p) /\ lockOwner' = 0
            /\ (hist[p].locked /\ ~hist'[p].locked) => Returns(p) /\ lockOwner' = 0
            /\ Len(trace'[p]) > Len(trace[p]) => lockOwner = p /\ lockOwner' = p]_vars

\* the lock is still held at line 236 of a call that started a child, stored
\* RUNNING and waited for the child
C6_Witness ==
    \E p \in Launchers :
        /\ At(p, "put_lock") /\ lockOwner = p
        /\ hist[p].running /\ hist[p].reaped
        /\ Len(trace[p]) = 4

\* --------------------------------------------------------------------- C7
\* the transitions of the lifecycle graph
Graph ==
    {<<STARTING, RUNNING>>, <<STARTING, ABORTING>>,
     <<RUNNING, STOPPING>>, <<STOPPING, STOPPED>>}

\* C7: in a call whose lxc_setstate calls all succeed, the states stored
\* begin with STARTING and follow the graph, so nothing is stored after
\* ABORTING or STOPPED; when the call returns, a failed start has stored
\* ABORTING last and a normal one STOPPED.
C7_LifecycleGraph ==
    \A p \in Launchers :
        LET t == Stored(p) IN
        (\A i \in 1..Len(trace[p]) : trace[p][i][2]) =>
            /\ t # <<>> => t[1] = STARTING
            /\ \A i \in 1..(Len(t) - 1) : <<t[i], t[i + 1]>> \in Graph
            /\ At(p, "put_lock") =>
                  t[Len(t)] = (IF Failed(p) THEN ABORTING ELSE STOPPED)

\* --------------------------------------------------------------------- C8
\* C8: when the child fails in lxc_setup or in execvp, the launcher's final
\* read is not empty, it has waited for the child, asked for ABORTING,
\* written no pid record, and lxc_start returns -LXC_ERROR_INTERNAL.
C8_ChildFailureReturnsInternal ==
    \A p \in Launchers :
        (At(p, "put_lock") /\ hist[p].cfail \in {"c_setup", "c_exec"}
                           /\ hist[p].rd2 > 0) =>
            /\ \E i \in 1..Len(trace[p]) : trace[p][i][1] = ABORTING
            /\ ~hist[p].wrotePid /\ ~initFile.exists
            /\ ReturnValue(p) = -LXC_ERROR_INTERNAL

\* --------------------------------------------------------------------- C9
\* C9: lxc_start returns 0 only if the pid record was written, RUNNING was
\* stored and waitpid collected the child; busy is returned only when the
\* lock was found held.
C9_ZeroOnlyOnSuccess ==
    \A p \in Launchers :
        /\ (pc[p] \in {"put_lock", "return_busy", "return_lock_failed"}
              /\ ReturnValue(p) = 0) =>
                 hist[p].wrotePid /\ hist[p].running /\ hist[p].reaped
        /\ (pc[p] \in {"put_lock", "return_busy", "return_lock_failed"}
              /\ ReturnValue(p) = -LXC_ERROR_BUSY) => hist[p].busy

\* -------------------------------------------------------------------- C10
Suppressed(p) == \A s \in Sigs : disp[p][s] = TTY_HANDLER

\* C10: SIGINT and SIGQUIT are handled by the tty handler in every state of
\* a call in which the child exists; when the call returns, the dispositions
\* are those in force when it began, and a call that installed no handler
\* leaves the dispositions alone.
C10_SignalsSuppressedAndRestored ==
    [][\A p \in Launchers :
        /\ (cpc[p] # "none")' => Suppressed(p)'
        /\ Returns(p) => disp'[p] = hist[p].orig
        /\ (Returns(p) /\ ~hist[p].added) => disp'[p] = disp[p]]_vars

\* -------------------------------------------------------------------- C11
\* the call has computed clone_flags (line 95) and has not returned
FlagsSet(p) ==
    pc[p] \notin {"idle", "return_busy", "return_lock_failed",
                  "setstate_starting", "readlink", "socketpair",
                  "add_handler", "clone_flags", "out", "unlink_nsgroup",
                  "unlink_init", "put_lock"}
        \/ pid[p] # 0

\* C11: the flags given to fork_ns, and held by the call from then on,
\* contain CLONE_NEWPID, CLONE_NEWIPC and CLONE_NEWNS; they contain
\* CLONE_NEWUTS exactly when the configuration has a utsname and CLONE_NEWNET
\* exactly when it has a network, and nothing else, so with neither they are
\* the three base flags; no statement after line 95 changes them before the
\* call returns.
C11_NamespaceFlags ==
    /\ [](\A p \in Launchers :
            FlagsSet(p) =>
               /\ {CLONE_NEWPID, CLONE_NEWIPC, CLONE_NEWNS} \subseteq clone_flags[p]
               /\ CLONE_NEWUTS \in clone_flags[p] <=> conf.utsname
               /\ CLONE_NEWNET \in clone_flags[p] <=> conf.network
               /\ clone_flags[p] \subseteq
                     {CLONE_NEWPID, CLONE_NEWIPC, CLONE_NEWNS,
                      CLONE_NEWUTS, CLONE_NEWNET}
               /\ (~conf.utsname /\ ~conf.network) =>
                     clone_flags[p] = {CLONE_NEWPID, CLONE_NEWIPC, CLONE_NEWNS})
    /\ [][\A p \in Launchers :
            (pc[p] \notin {"clone_flags", "put_lock"} /\ InStart(p))
                => clone_flags'[p] = clone_flags[p]]_vars

\* a child spawned with the three base flags and a utsname namespace, for a
\* configuration with a utsname and no network, runs the target program
C11_Witness ==
    \E p \in Launchers :
        /\ cpc[p] = "running" /\ pid[p] > 0
        /\ conf.utsname /\ ~conf.network
        /\ clone_flags[p] =
              {CLONE_NEWPID, CLONE_NEWIPC, CLONE_NEWNS, CLONE_NEWUTS}

\* -------------------------------------------------------------------- C12
\* the statements of the out block (lines 229-240)
OutBlock == {"out", "unlink_nsgroup", "unlink_init", "put_lock"}

\* launcher p runs the out block on a name that is already clean: the name
\* was clean when the call began, and the call came to out from line 72,
\* holding the lock alone
CleanupOnClean(p) ==
    /\ pc[p] \in OutBlock
    /\ hist[p].clean /\ NameClean
    /\ trace[p] # <<>> /\ trace[p][1] = <<STARTING, FALSE>>

\* C12: every statement of an out block that runs on a name that is already
\* clean leaves the lifecycle state, the nsgroup link, the pid record and the
\* network as they are and does not touch err; when the block ends the lock
\* is free, as it was before the call, and SIGINT and SIGQUIT have the
\* dispositions they had before the block ran.
C12_CleanupIdempotent ==
    [][\A p \in Launchers :
        (CleanupOnClean(p) /\ pc'[p] # pc[p]) =>
            /\ state' = state /\ nsgroup' = nsgroup
            /\ initFile' = initFile /\ network' = network
            /\ ~Returns(p) => err'[p] = err[p] /\ lockOwner' = p
            /\ Returns(p) =>
                 /\ lockOwner' = 0
                 /\ ReturnValue(p) = -LXC_ERROR_INTERNAL
                 /\ disp'[p] = disp[p]]_vars

\* -------------------------------------------------------------------- C13
\* the statement that follows an lxc_setstate call that returned 0
AfterSetstate(l) ==
    CASE l = "setstate_starting" -> "readlink"
      [] l = "setstate_running"  -> "wait_again"
      [] l = "setstate_stopping" -> "destroy_network"
      [] l = "out"               -> "unlink_nsgroup"
      [] l = "err_aborting"      -> "kill"

\* C13: an lxc_setstate of RUNNING, STOPPING, STOPPED or ABORTING that fails
\* is followed by the statement that follows it when it succeeds, changes
\* neither err nor the child, and the call does not come to the kill of line
\* 259 on its account.
C13_OnlyStartingFatal ==
    [][\A p \in Launchers :
        (/\ Len(trace'[p]) = Len(trace[p]) + 1
         /\ trace'[p][Len(trace'[p])][1] # STARTING
         /\ ~trace'[p][Len(trace'[p])][2]) =>
            /\ pc'[p] = AfterSetstate(pc[p])
            /\ err'[p] = err[p]
            /\ cpc'[p] = cpc[p]]_vars

\* -------------------------------------------------------------------- C14
\* the call's lxc_setstate(name, STARTING) failed
StartingFailed(p) == trace[p] # <<>> /\ trace[p][1] = <<STARTING, FALSE>>

\* C14: a call whose lxc_setstate(STARTING) failed makes no other
\* lxc_setstate call, has no channel, no tty handler, no child, has
\* registered no nsgroup and created no network, and returns
\* -LXC_ERROR_INTERNAL; between the failure and the return it changes nothing
\* of the name but the lock, and leaves the signal dispositions alone.
C14_StartingFailureLeavesNothing ==
    /\ [](\A p \in Launchers :
            StartingFailed(p) =>
               /\ Len(trace[p]) = 1
               /\ ~sv[p].s0 /\ ~sv[p].s1 /\ ~hist[p].added
               /\ cpc[p] = "none" /\ pid[p] = 0
               /\ ~hist[p].nsg /\ ~hist[p].net
               /\ At(p, "put_lock") => ReturnValue(p) = -LXC_ERROR_INTERNAL)
    /\ [][\A p \in Launchers :
            StartingFailed(p) =>
               /\ UNCHANGED <<state, initFile, nsgroup, network>>
               /\ disp'[p] = disp[p]
               /\ Returns(p) => lockOwner' = 0]_vars

\* -------------------------------------------------------------------- C15
\* the child is past the read of line 118: in lxc_setup, the mount, the
\* prctl, execvp or the target program, or it failed in one of them
ChildPastContinue(p) ==
    \/ cpc[p] \in AfterContinue \cup {"running"}
    \/ hist[p].cfail \in AfterContinue
    \/ hist[p].execed

\* C15: a child is past the read of line 118 only if the launcher wrote the
\* continue signal; the launcher writes it only after it called
\* lxc_link_nsgroup (whatever that returned) and, when CLONE_NEWNET is set,
\* after conf_create_network succeeded; when conf_create_network failed the
\* continue signal is never written and the child never comes to lxc_setup
\* nor to execvp.
C15_HandshakeOrder ==
    \A p \in Launchers :
        /\ ChildPastContinue(p) => hist[p].cont
        /\ (hist[p].cont \/ At(p, "write_continue")) =>
              /\ hist[p].nsg
              /\ hist[p].rd1 >= 0
              /\ CLONE_NEWNET \in clone_flags[p] => hist[p].net
        /\ hist[p].netfail =>
              /\ ~hist[p].cont /\ ~At(p, "write_continue")
              /\ ~ChildPastContinue(p)

\* the child runs the target program after a handshake in which the nsgroup
\* registration failed and the network was created
C15_Witness ==
    \E p \in Launchers :
        /\ cpc[p] = "running" /\ hist[p].cont
        /\ hist[p].nsg /\ ~nsgroup
        /\ CLONE_NEWNET \in clone_flags[p] /\ hist[p].net

\* -------------------------------------------------------------------- C16
\* C16: when the child's write of the ready signal failed and the launcher's
\* first read (line 155) returned 0, the launcher goes to the unwind: it
\* does not call lxc_link_nsgroup nor conf_create_network, does not write the
\* continue signal, and returns -LXC_ERROR_INTERNAL.
C16_EarlyChildExitIsFailure ==
    \A p \in Launchers :
        (hist[p].cfail = "c_write_ready" /\ hist[p].rd1 = 0) =>
            /\ pc[p] \notin {"link_nsgroup", "create_network",
                             "write_continue", "read_outcome"}
            /\ ~hist[p].nsg /\ ~hist[p].net /\ ~hist[p].netfail
            /\ At(p, "put_lock") => ReturnValue(p) = -LXC_ERROR_INTERNAL

\* -------------------------------------------------------------------- C17
\* the call is in the out block after a normal exit of the child: the child
\* ran the target program, and the call asked for STOPPING (line 220)
NormalExit(p) == pc[p] \in OutBlock /\ ~Failed(p) /\ hist[p].execed

\* C17: after a normal exit of the child the call has asked for STOPPING,
\* then, with CLONE_NEWNET set, called conf_destroy_network, and only then
\* asks for STOPPED; it returns 0 whether or not the destroy succeeded;
\* without CLONE_NEWNET it does not call conf_destroy_network.
C17_NormalExitDestroysNetwork ==
    \A p \in Launchers :
        /\ NormalExit(p) =>
              /\ hist[p].netdel <=> CLONE_NEWNET \in clone_flags[p]
              /\ ReturnValue(p) = 0
              /\ \A i, j \in 1..Len(trace[p]) :
                    (trace[p][i][1] = STOPPING /\ trace[p][j][1] = STOPPED)
                        => i < j
        /\ (At(p, "destroy_network") \/ At(p, "setstate_stopping"))
              => ~hist[p].netdel

\* -------------------------------------------------------------------- C18
\* C18: every close of a socketpair descriptor by the launcher closes a
\* descriptor that is open (lines 152, 261, 262), and when a call that made
\* the socketpair comes to its return neither descriptor is open.
C18_EndpointsClosedOnce ==
    \A p \in Launchers :
        /\ At(p, "close_sv0") => sv[p].s0
        /\ At(p, "err_fork_ns") => sv[p].s0 /\ sv[p].s1
        /\ At(p, "put_lock") => ~sv[p].s0 /\ ~sv[p].s1

\* -------------------------------------------------------------------- C19
\* C19: the kill of line 259 is sent only to a child that waitpid has not
\* collected; when a call that spawned a child returns after a failure, the
\* child has ended and waitpid has collected it.
C19_KillLiveReapAll ==
    \A p \in Launchers :
        /\ (At(p, "kill") /\ pid[p] > 0) => ~hist[p].reaped
        /\ (At(p, "put_lock") /\ pid[p] > 0 /\ Failed(p)) =>
              cpc[p] = "reaped"

\* -------------------------------------------------------------------- C20
\* C20: in no state are the launcher and its child both in a read of the
\* channel that has nothing to return; and with the launcher and the child
\* scheduled fairly, the child's steps and the target program ending, every
\* call of lxc_start returns.
C20_HandshakeTerminates ==
    /\ [](\A p \in Launchers : ~(ParentBlocked(p) /\ ChildBlocked(p)))
    /\ \A p \in Launchers : ~At(p, "idle") ~> At(p, "idle")

\* the launcher is blocked in the read of line 176 while the child, which
\* has the continue signal, is in lxc_setup
C20_Witness ==
    \E p \in Launchers :
        /\ At(p, "read_outcome") /\ ParentBlocked(p)
        /\ cpc[p] = "c_setup" /\ hist[p].cont

====
